---- MODULE Spec2Model ----
(***************************************************************************)
(* One request served by app/api/action/claim-rent/route.ts: the GET,      *)
(* OPTIONS and POST handlers, the holdings fetcher, the interaction        *)
(* counter, the eligibility evaluator and the transaction builder.         *)
(*                                                                         *)
(* The file holds two copies of the route; the second (lines 258-556) is   *)
(* the one every definition below is translated from.                      *)
(*                                                                         *)
(* An action of the model is one run-to-completion step of the JavaScript  *)
(* event loop: the code from the arrival of a request, or from the         *)
(* completion of an awaited outbound call, up to the next await that waits *)
(* for an outbound call (or to the response).                              *)
(***************************************************************************)
EXTENDS Integers, Sequences, FiniteSets, TLC

(***************************************************************************)
(* Bounds.  The source asks the ledger for { limit: 50 } signatures        *)
(* (route.ts:337); the model scales the window down to SIGNATURE_LIMIT and *)
(* lets the address have up to one more transaction than the window holds, *)
(* so that the limit cuts the history.                                     *)
(***************************************************************************)
SIGNATURE_LIMIT == 5

MaxHistory == SIGNATURE_LIMIT + 1

(***************************************************************************)
(* The static table and the other module constants.                        *)
(***************************************************************************)
JUP == "JUPyiwrYJFskUPiHa7hkeR8VUtAAXxEDBtS1nHLApPf"

ORCA == "orcaEKTdK7LKz57vaAYr9QeNsVEPfiu6QeMU1kektZE"

\* An account that is no criterion's required token (the wrapped-SOL mint).
WSOL == "So11111111111111111111111111111111111111112"

AIRDROP_CRITERIA ==
    << [protocol |-> "JupiterV2", requiredTokens |-> <<JUP>>,
        minimumBalance |-> 0, minimumTransactions |-> 5],
       [protocol |-> "Orca", requiredTokens |-> <<ORCA>>,
        minimumBalance |-> 0, minimumTransactions |-> 3] >>

NumCriteria == Len(AIRDROP_CRITERIA)

(***************************************************************************)
(* Values.                                                                 *)
(***************************************************************************)
\* searchParams.get("action"): null when the parameter is absent.
NullAction == "<null>"

ActionParams == {NullAction, "", "check", "claim"}

Methods == {"GET", "OPTIONS", "POST"}

\* The request body, by what the handler's first lines do with it.
\*   badjson   request.json() throws
\*   noaccount a JSON object without account: new PublicKey(undefined) throws
\*   badkey    account is no base58 key of 32 bytes: new PublicKey throws
\*   offcurve  a well-formed key that is not on the curve
\*   oncurve   a wallet address
BodyKinds == {"badjson", "noaccount", "badkey", "offcurve", "oncurve"}

NoRequest == [method |-> "none", action |-> NullAction, body |-> "none"]

TokenHolding(mint, amount) == [mint |-> mint, amount |-> amount, decimals |-> 6]

\* A JavaScript value held by data.tokens / returned by getTokenHoldings.
ArrayValue(items) == [type |-> "array", items |-> items, value |-> 0]

NumberValue(n) == [type |-> "number", items |-> <<>>, value |-> n]

Undefined == [type |-> "undefined", items |-> <<>>, value |-> 0]

HoldingLists ==
    { <<>>,
      << TokenHolding(WSOL, "1000000"), TokenHolding(JUP, "0") >>,
      << TokenHolding(JUP, "1000000"), TokenHolding(ORCA, "0") >> }

TokensValues ==
    {Undefined, NumberValue(0), NumberValue(7)} \cup {ArrayValue(h) : h \in HoldingLists}

\* What the balances index answers.
\*   neterr  fetch rejects
\*   status  a response whose ok is false
\*   badjson response.json() rejects, or yields null (data.tokens throws)
\*   json    a JSON object; tokens is its tokens member
BalancesOutcomes ==
    { [kind |-> k, tokens |-> Undefined] : k \in {"neterr", "status", "badjson"} }
      \cup { [kind |-> "json", tokens |-> t] : t \in TokensValues }

\* What one getTransaction answers: a rejection, null (no such transaction),
\* or a transaction with its message's account keys.
Pending == [kind |-> "pending", accountKeys |-> <<>>]

Rejected == [kind |-> "rejected", accountKeys |-> <<>>]

NullTx == [kind |-> "null", accountKeys |-> <<>>]

Tx(keys) == [kind |-> "tx", accountKeys |-> keys]

\* The account keys of a transaction: one names JUP twice and ORCA never, the
\* other names ORCA once and JUP never.
AccountKeyLists == { <<JUP, WSOL, JUP>>, <<WSOL, ORCA>> }

TransactionOutcomes == {Rejected, NullTx} \cup { Tx(k) : k \in AccountKeyLists }

NoSignatures == [kind |-> "none", n |-> 0]

NoResponse ==
    [status |-> 0, kind |-> "none", error |-> "", message |-> <<>>, transaction |-> FALSE]

VARIABLES
    pc,            \* where the request is: idle, balances, signatures,
                   \* transactions, blockhash, done
    request,       \* the request being served
    bodyRead,      \* request.json() has been called
    holdings,      \* checkAirdropEligibility's holdings
    crit,          \* index in AIRDROP_CRITERIA of the loop's criteria (0: none)
    signatures,    \* checkDefiInteractions' signatures, by their number
    transactions,  \* the slots of the Promise.all of the latest batch, kept
                   \* until the next outbound call of the request completes
    orphans,       \* lookups in flight whose Promise.all already rejected
    interactions,  \* the map checkDefiInteractions returned, per criterion
    results,       \* checkAirdropEligibility's results
    evaluation,    \* checkAirdropEligibility: notcalled, running, returned, threw
    issued,        \* awaited outbound calls issued so far: the balances fetch,
                   \* each criterion's signature lookup, the blockhash lookup
    errorLog,      \* which console.error lines have run
    response       \* the Response returned

vars == << pc, request, bodyRead, holdings, crit, signatures, transactions, orphans,
           interactions, results, evaluation, issued, errorLog, response >>


(***************************************************************************)
(* JavaScript helpers.                                                     *)
(***************************************************************************)
\* Array.prototype.includes / some over a sequence.
Includes(seq, x) == \E i \in DOMAIN seq : seq[i] = x

\* The truthiness of a value, as data.tokens || [] tests it.
Truthy(v) ==
    CASE v.type = "array" -> TRUE
      [] v.type = "number" -> v.value # 0
      [] OTHER -> FALSE

\* A thrown value: an Error with its message, or something else.
ErrorValue(msg) == [isError |-> TRUE, message |-> msg]

NonErrorValue == [isError |-> FALSE, message |-> ""]

\* new Map<string, number>(), Map.get(k) || 0 and Map.set(k, v).
EmptyMap == [k \in {} |-> 0]

MapGet(m, k) == IF k \in DOMAIN m THEN m[k] ELSE 0

MapSet(m, k, v) == [x \in (DOMAIN m) \cup {k} |-> IF x = k THEN v ELSE m[x]]

\* Array.from(interactions.values()).reduce((sum, count) => sum + count, 0)
RECURSIVE SumOver(_, _)
SumOver(m, keys) ==
    IF keys = {} THEN 0
    ELSE LET k == CHOOSE x \in keys : TRUE
         IN  m[k] + SumOver(m, keys \ {k})

TotalInteractions(m) == SumOver(m, DOMAIN m)

(***************************************************************************)
(* The action parameter and the request body.                              *)
(***************************************************************************)
\* A check that only refuses a missing action.
InvalidActionMissingOnly(action) == action = NullAction \/ action = ""

\* !action || action !== "check"
InvalidAction(action) == (action = NullAction \/ action = "") \/ action # "check"

\* await request.json() and new PublicKey(body.account): the value thrown, if any.
BodyThrows(body) == body \in {"badjson", "noaccount", "badkey"}

BodyError(body) ==
    CASE body = "badjson" -> ErrorValue("Unexpected end of JSON input")
      [] body = "noaccount" ->
             ErrorValue("Cannot read properties of undefined (reading '_bn')")
      [] OTHER -> ErrorValue("Invalid public key input")

\* A handler that takes every well-formed key for a wallet address.
IsOnCurveUnchecked(body) == body \in {"offcurve", "oncurve"}

\* PublicKey.isOnCurve(new PublicKey(userAddress).toBuffer())
IsOnCurve(body) == body = "oncurve"

(***************************************************************************)
(* getTokenHoldings: the value it returns for an answer of the index, and  *)
(* whether its catch block ran.                                            *)
(***************************************************************************)
HoldingsFetchFailed(outcome) == outcome.kind \in {"neterr", "status", "badjson"}

getTokenHoldings(outcome) ==
    IF HoldingsFetchFailed(outcome) THEN ArrayValue(<<>>)
    ELSE IF Truthy(outcome.tokens) THEN outcome.tokens
    ELSE ArrayValue(<<>>)

(***************************************************************************)
(* checkDefiInteractions: the window and the tally.                        *)
(***************************************************************************)
\* connection.getSignaturesForAddress(key, { limit }): the ledger returns the
\* most recent signatures of the address, at most limit of them.
getSignaturesForAddress(history, limit) == IF history < limit THEN history ELSE limit

\* An inner loop that adds one for every account key equal to the target.
RECURSIVE TallyAddressesPerKey(_, _, _, _)
TallyAddressesPerKey(m, accounts, protocolAddresses, j) ==
    IF j > Len(protocolAddresses) THEN m
    ELSE LET protocolAddr == protocolAddresses[j]
             hits == Cardinality({ i \in DOMAIN accounts : accounts[i] = protocolAddr })
             next == IF hits > 0
                     THEN MapSet(m, protocolAddr, MapGet(m, protocolAddr) + hits)
                     ELSE m
         IN  TallyAddressesPerKey(next, accounts, protocolAddresses, j + 1)

\* The inner loop: for (const protocolAddr of protocolAddresses) ...
RECURSIVE TallyAddresses(_, _, _, _)
TallyAddresses(m, accounts, protocolAddresses, j) ==
    IF j > Len(protocolAddresses) THEN m
    ELSE LET protocolAddr == protocolAddresses[j]
             next == IF Includes(accounts, protocolAddr)
                     THEN MapSet(m, protocolAddr, MapGet(m, protocolAddr) + 1)
                     ELSE m
         IN  TallyAddresses(next, accounts, protocolAddresses, j + 1)

\* One turn of the outer loop: if (!tx) continue; ...
TallyTransaction(m, tx, protocolAddresses) ==
    IF tx.kind # "tx" THEN m
    ELSE TallyAddresses(m, tx.accountKeys, protocolAddresses, 1)

\* The map after the first k turns of for (const tx of transactions).
RECURSIVE TallyPrefix(_, _, _)
TallyPrefix(txs, protocolAddresses, k) ==
    IF k = 0 THEN EmptyMap
    ELSE TallyTransaction(TallyPrefix(txs, protocolAddresses, k - 1), txs[k],
                          protocolAddresses)

Tally(txs, protocolAddresses) == TallyPrefix(txs, protocolAddresses, Len(txs))

PendingSlots(txs) == { i \in DOMAIN txs : txs[i].kind = "pending" }

(***************************************************************************)
(* checkAirdropEligibility: one criterion.                                 *)
(***************************************************************************)
\* holdings.some(...) is called once requiredTokens has a first element; it
\* throws a TypeError when holdings is no array.
HasRequiredTokensThrows(h, criteria) ==
    Len(criteria.requiredTokens) > 0 /\ h.type # "array"

HasRequiredTokens(h, criteria) ==
    \E t \in DOMAIN criteria.requiredTokens :
        \E i \in DOMAIN h.items : h.items[i].mint = criteria.requiredTokens[t]

\* A decision rule that asks for more than the minimum.
EligibleAboveMinimum(hasRequiredTokens, totalInteractions, criteria) ==
    hasRequiredTokens /\ totalInteractions > criteria.minimumTransactions

Eligible(hasRequiredTokens, totalInteractions, criteria) ==
    hasRequiredTokens /\ totalInteractions >= criteria.minimumTransactions

Reason(eligible, totalInteractions, criteria) ==
    IF eligible
    THEN "Eligible for " \o criteria.protocol \o " airdrop! Found "
           \o ToString(totalInteractions) \o " interactions."
    ELSE "Not eligible for " \o criteria.protocol \o ". Need "
           \o ToString(criteria.minimumTransactions) \o " interactions, found "
           \o ToString(totalInteractions) \o "."

EligibilityResult(criteria, h, map) ==
    LET total == TotalInteractions(map)
        eligible == Eligible(HasRequiredTokens(h, criteria), total, criteria)
    IN  [eligible |-> eligible, protocol |-> criteria.protocol,
         reason |-> Reason(eligible, total, criteria)]

(***************************************************************************)
(* Responses.  A message is the sequence of its lines (join('\n')).        *)
(***************************************************************************)
InvalidActionResponse ==
    [status |-> 400, kind |-> "error", error |-> "Invalid action",
     message |-> <<>>, transaction |-> FALSE]

DescriptorResponse ==
    [status |-> 200, kind |-> "descriptor", error |-> "",
     message |-> <<>>, transaction |-> FALSE]

ErrorMessage(thrown) ==
    IF thrown.isError THEN thrown.message ELSE "An unknown error occurred"

FailureResponse(thrown) ==
    [status |-> 500, kind |-> "error",
     error |-> "Failed to process airdrop check: " \o ErrorMessage(thrown),
     message |-> <<>>, transaction |-> FALSE]

EligibleAirdrops(rs) == { i \in DOMAIN rs : rs[i].eligible }

Reasons(rs) == [i \in DOMAIN rs |-> rs[i].reason]

SummaryMessage(rs) ==
    IF Cardinality(EligibleAirdrops(rs)) = 0
    THEN <<"No eligible airdrops found.">> \o Reasons(rs)
    ELSE <<"Found " \o ToString(Cardinality(EligibleAirdrops(rs))) \o " eligible airdrops:">>
           \o Reasons(rs)

\* The earlier copy of POST (lines 211-237): a message alone when nothing is eligible.
PostSuccessResponseInformational(rs) ==
    [status |-> 200, kind |-> IF EligibleAirdrops(rs) = {} THEN "message" ELSE "transaction",
     error |-> "", message |-> SummaryMessage(rs),
     transaction |-> EligibleAirdrops(rs) # {}]

PostSuccessResponse(rs) ==
    [status |-> 200, kind |-> "transaction", error |-> "",
     message |-> SummaryMessage(rs), transaction |-> TRUE]


(***************************************************************************)
(* The state machine.                                                      *)
(***************************************************************************)
NoneIssued ==
    [balances |-> 0,
     signatures |-> [k \in 1..NumCriteria |-> 0],
     blockhash |-> 0]

Init ==
    /\ pc = "idle"
    /\ request = NoRequest
    /\ bodyRead = FALSE
    /\ holdings = ArrayValue(<<>>)
    /\ crit = 0
    /\ signatures = NoSignatures
    /\ transactions = <<>>
    /\ orphans = 0
    /\ interactions = <<>>
    /\ results = <<>>
    /\ evaluation = "notcalled"
    /\ issued = NoneIssued
    /\ errorLog = {}
    /\ response = NoResponse

\* The catch block of POST (lines 542-556), reached with the value thrown.
Respond500(thrown, log) ==
    /\ pc' = "done"
    /\ errorLog' = log \cup {"post"}
    /\ response' = FailureResponse(thrown)

\* The head of the for loop for criterion k (lines 395-404), up to the signature
\* lookup that checkDefiInteractions awaits (lines 332-338).
StartCriterion(k, log) ==
    /\ crit' = k
    /\ IF HasRequiredTokensThrows(holdings', AIRDROP_CRITERIA[k])
       THEN /\ evaluation' = "threw"
            /\ issued' = issued
            /\ Respond500(ErrorValue("holdings.some is not a function"), log)
       ELSE /\ evaluation' = "running"
            /\ issued' = [issued EXCEPT !.signatures[k] = @ + 1]
            /\ pc' = "signatures"
            /\ errorLog' = log
            /\ response' = response

\* return results (line 427), then POST up to the blockhash lookup that
\* createDummyTransaction awaits (lines 511-523, 368-380).
ReturnResults(log) ==
    /\ crit' = crit
    /\ evaluation' = "returned"
    /\ issued' = [issued EXCEPT !.blockhash = @ + 1]
    /\ pc' = "blockhash"
    /\ errorLog' = log
    /\ response' = response

\* The rest of the loop body once checkDefiInteractions has returned map for
\* criterion k (lines 406-425), then the next turn of the loop or the return.
ContinueEvaluation(k, map, log) ==
    /\ interactions' = Append(interactions, map)
    /\ results' = Append(results, EligibilityResult(AIRDROP_CRITERIA[k], holdings, map))
    /\ IF k < NumCriteria THEN StartCriterion(k + 1, log) ELSE ReturnResults(log)

\* GET (lines 431-471).
GET(action) ==
    /\ pc = "idle"
    /\ request' = [method |-> "GET", action |-> action, body |-> "none"]
    /\ response' = IF InvalidAction(action) THEN InvalidActionResponse
                   ELSE DescriptorResponse
    /\ pc' = "done"
    /\ UNCHANGED << bodyRead, holdings, crit, signatures, transactions, orphans,
                    interactions, results, evaluation, issued, errorLog >>

\* export const OPTIONS = GET (line 473).
OPTIONS(action) ==
    /\ pc = "idle"
    /\ request' = [method |-> "OPTIONS", action |-> action, body |-> "none"]
    /\ response' = IF InvalidAction(action) THEN InvalidActionResponse
                   ELSE DescriptorResponse
    /\ pc' = "done"
    /\ UNCHANGED << bodyRead, holdings, crit, signatures, transactions, orphans,
                    interactions, results, evaluation, issued, errorLog >>

\* POST from its first line to the balances fetch that getTokenHoldings awaits
\* (lines 476-509, 388-393, 309-314), or to an early response.
POST(action, body) ==
    /\ pc = "idle"
    /\ request' = [method |-> "POST", action |-> action, body |-> body]
    /\ UNCHANGED << holdings, crit, signatures, transactions, orphans,
                    interactions, results >>
    /\ IF InvalidAction(action)
       THEN /\ response' = InvalidActionResponse
            /\ pc' = "done"
            /\ UNCHANGED << bodyRead, evaluation, issued, errorLog >>
       ELSE /\ bodyRead' = TRUE
            /\ IF BodyThrows(body)
               THEN /\ Respond500(BodyError(body), errorLog)
                    /\ UNCHANGED << evaluation, issued >>
               ELSE IF ~IsOnCurve(body)
               THEN /\ Respond500(ErrorValue("Invalid Solana address"), errorLog)
                    /\ UNCHANGED << evaluation, issued >>
               ELSE /\ evaluation' = "running"
                    /\ issued' = [issued EXCEPT !.balances = @ + 1]
                    /\ pc' = "balances"
                    /\ UNCHANGED << errorLog, response >>

\* The balances fetch completes: the rest of getTokenHoldings (lines 314-323),
\* then the first turn of the loop of checkAirdropEligibility.
BalancesRespond(outcome) ==
    /\ pc = "balances"
    /\ holdings' = getTokenHoldings(outcome)
    /\ UNCHANGED << request, bodyRead, signatures, transactions, orphans >>
    /\ LET log == IF HoldingsFetchFailed(outcome) THEN errorLog \cup {"holdings"}
                  ELSE errorLog
       IN  IF NumCriteria > 0
           THEN /\ StartCriterion(1, log)
                /\ UNCHANGED << interactions, results >>
           ELSE /\ ReturnResults(log)
                /\ UNCHANGED << interactions, results >>

\* The signature lookup of the current criterion completes (lines 335-342): it
\* rejected, or the ledger knows history transactions of the address.
SignaturesRespond(rejects, history) ==
    /\ pc = "signatures"
    /\ UNCHANGED << request, bodyRead, holdings, orphans >>
    /\ IF rejects
       THEN /\ signatures' = [kind |-> "rejected", n |-> 0]
            /\ transactions' = <<>>
            /\ ContinueEvaluation(crit, EmptyMap, errorLog \cup {"interactions"})
       ELSE LET n == getSignaturesForAddress(history, SIGNATURE_LIMIT)
            IN  /\ signatures' = [kind |-> "list", n |-> n]
                /\ transactions' = [i \in 1..n |-> Pending]
                /\ IF n = 0
                   THEN ContinueEvaluation(crit, Tally(<<>>, AIRDROP_CRITERIA[crit].requiredTokens),
                                           errorLog)
                   ELSE /\ pc' = "transactions"
                        /\ UNCHANGED << crit, interactions, results, evaluation,
                                        issued, errorLog, response >>

\* The lookup of the i-th signature completes (lines 340-360).  Promise.all
\* keeps each value at the index of its signature, rejects with the first
\* rejection and resolves once no lookup is pending.
TransactionRespond(i, outcome) ==
    /\ pc = "transactions"
    /\ i \in PendingSlots(transactions)
    /\ UNCHANGED << request, bodyRead, holdings, signatures >>
    /\ LET slots == [transactions EXCEPT ![i] = outcome]
       IN  /\ transactions' = slots
           /\ IF outcome.kind = "rejected"
              THEN /\ orphans' = orphans + Cardinality(PendingSlots(slots))
                   /\ ContinueEvaluation(crit, EmptyMap, errorLog \cup {"interactions"})
              ELSE IF PendingSlots(slots) = {}
              THEN /\ orphans' = orphans
                   /\ ContinueEvaluation(crit,
                                         Tally(slots, AIRDROP_CRITERIA[crit].requiredTokens),
                                         errorLog)
              ELSE UNCHANGED << pc, crit, orphans, interactions, results, evaluation,
                                issued, errorLog, response >>

\* A lookup of a batch whose Promise.all has already rejected completes; nothing
\* awaits it.
OrphanRespond ==
    /\ orphans > 0
    /\ orphans' = orphans - 1
    /\ UNCHANGED << pc, request, bodyRead, holdings, crit, signatures, transactions,
                    interactions, results, evaluation, issued, errorLog, response >>

\* The blockhash lookup completes: the rest of createDummyTransaction and of
\* POST (lines 380-384, 525-540), or the catch block.
BlockhashRespond(outcome) ==
    /\ pc = "blockhash"
    /\ transactions' = <<>>
    /\ UNCHANGED << request, bodyRead, holdings, crit, signatures, orphans,
                    interactions, results, evaluation, issued >>
    /\ IF outcome = "ok"
       THEN /\ response' = PostSuccessResponse(results)
            /\ pc' = "done"
            /\ UNCHANGED errorLog
       ELSE Respond500(IF outcome = "error"
                       THEN ErrorValue("failed to get recent blockhash")
                       ELSE NonErrorValue, errorLog)

Next ==
    \/ \E action \in ActionParams : GET(action)
    \/ \E action \in ActionParams : OPTIONS(action)
    \/ \E action \in ActionParams, body \in BodyKinds : POST(action, body)
    \/ \E outcome \in BalancesOutcomes : BalancesRespond(outcome)
    \/ \E rejects \in BOOLEAN, history \in 0..MaxHistory : SignaturesRespond(rejects, history)
    \/ \E i \in 1..MaxHistory, outcome \in TransactionOutcomes : TransactionRespond(i, outcome)
    \/ OrphanRespond
    \/ \E outcome \in {"ok", "error", "nonerror"} : BlockhashRespond(outcome)

Spec == Init /\ [][Next]_vars


(***************************************************************************)
(* Vocabulary of the properties.                                           *)
(***************************************************************************)
ValidPost ==
    request.method = "POST" /\ request.action = "check" /\ request.body = "oncurve"

Responded == response.kind # "none"

\* The criteria evaluated so far.
Evaluated == 1..Len(results)

\* Some holding's mint is one of the criterion's required tokens.
HoldsRequiredToken(criteria) ==
    \E h \in { holdings.items[i] : i \in DOMAIN holdings.items } :
        \E t \in { criteria.requiredTokens[j] : j \in DOMAIN criteria.requiredTokens } :
            h.mint = t

\* The sum of the counts of a returned map.
CountSum(m) == TotalInteractions(m)

AllZero(m) == \A k \in DOMAIN m : m[k] = 0

\* The latest criterion whose interactions have been counted.
LastCounted == Len(interactions)

\* The latest batch has settled and its slots are still in the state.
BatchSettled ==
    /\ signatures.kind = "list"
    /\ pc \in {"signatures", "blockhash"}
    /\ LastCounted >= 1

\* A lookup issued by the latest criterion failed.
CounterFailed ==
    \/ signatures.kind = "rejected"
    \/ \E i \in DOMAIN transactions : transactions[i].kind = "rejected"

Resolved(txs) == { i \in DOMAIN txs : txs[i].kind = "tx" }

ResolvedWith(txs, target) ==
    { i \in Resolved(txs) : \E a \in DOMAIN txs[i].accountKeys : txs[i].accountKeys[a] = target }

Targets(k) ==
    { AIRDROP_CRITERIA[k].requiredTokens[j] : j \in DOMAIN AIRDROP_CRITERIA[k].requiredTokens }

(***************************************************************************)
(* C1.  For every criterion evaluated, eligible is true if and only if     *)
(* some holding's mint is one of the criterion's required tokens and the   *)
(* sum of the counts of the tally returned for the criterion is at least   *)
(* its minimumTransactions; nothing else (minimumBalance, the amounts      *)
(* held) enters the verdict, and with no holdings and an all-zero tally    *)
(* the criterion is ineligible.                                            *)
(***************************************************************************)
C1_DecisionRule ==
    \A i \in Evaluated :
        /\ results[i].eligible <=>
               ( HoldsRequiredToken(AIRDROP_CRITERIA[i])
                 /\ CountSum(interactions[i]) >= AIRDROP_CRITERIA[i].minimumTransactions )
        /\ (holdings.items = <<>> /\ AllZero(interactions[i])) => ~results[i].eligible

\* JupiterV2 is eligible on exactly its minimum of interactions, Orca is not
\* although the tally was counted.
C1_Witness ==
    /\ Len(results) = NumCriteria
    /\ results[1].eligible
    /\ CountSum(interactions[1]) = AIRDROP_CRITERIA[1].minimumTransactions
    /\ ~results[2].eligible

(***************************************************************************)
(* C2.  Whatever the upstream calls answer, checkAirdropEligibility        *)
(* returns (it does not throw), and the list it returns has one result per *)
(* criterion of AIRDROP_CRITERIA, the i-th carrying the i-th protocol.     *)
(***************************************************************************)
C2_OneResultPerCriterion ==
    /\ evaluation # "threw"
    /\ evaluation = "returned" =>
           /\ Len(results) = NumCriteria
           /\ \A i \in 1..NumCriteria : results[i].protocol = AIRDROP_CRITERIA[i].protocol

(***************************************************************************)
(* C3.  getTokenHoldings and checkDefiInteractions never raise: the        *)
(* holdings are always a sequence, empty once the fetch has failed; after  *)
(* a failed signature or transaction lookup every count of the returned    *)
(* map is zero; and no error response comes out of the evaluation.         *)
(***************************************************************************)
C3_FetcherAndCounterAbsorbFailures ==
    /\ holdings.type = "array"
    /\ "holdings" \in errorLog => holdings.items = <<>>
    /\ (CounterFailed /\ pc # "transactions") =>
           /\ LastCounted >= 1
           /\ \A t \in Targets(LastCounted) : MapGet(interactions[LastCounted], t) = 0
    /\ evaluation # "threw"
    /\ response.status = 500 => evaluation \in {"notcalled", "returned"}


C5_NoUpstreamFailureFailsTheRequest ==
    (ValidPost /\ holdings.type = "array") => response.status # 500

(***************************************************************************)
(* C6.  GET, OPTIONS and POST answer HTTP 400 with the error "Invalid      *)
(* action" exactly when the action parameter is missing or is not "check"; *)
(* that answer is given before the body is read, the address validated or  *)
(* any outbound call issued, and no other failure yields 400.              *)
(***************************************************************************)
C6_InvalidActionIs400 ==
    Responded =>
        /\ response.status = 400 <=> request.action \notin {"check"}
        /\ response.status = 400 =>
               /\ response.error = "Invalid action"
               /\ ~bodyRead
               /\ evaluation = "notcalled"
               /\ issued = NoneIssued
               /\ transactions = <<>> /\ orphans = 0
        /\ response.status \in {200, 400, 500}

\* A POST with a wallet address in its body and an action other than check.
C6_Witness ==
    /\ request.method = "POST"
    /\ request.action = "claim"
    /\ request.body = "oncurve"
    /\ response.status = 400

(***************************************************************************)
(* C7.  A POST with action=check whose body is malformed or whose address  *)
(* fails the on-curve check is answered at once with HTTP 500 and the      *)
(* error "Failed to process airdrop check: <message>" ("Invalid Solana     *)
(* address" for an off-curve address); it gets no success response and     *)
(* reaches neither the evaluation nor any outbound call.                   *)
(***************************************************************************)
C7_InvalidInputIs500 ==
    (request.method = "POST" /\ request.action = "check" /\ request.body # "oncurve") =>
        /\ pc = "done"
        /\ response.status = 500
        /\ response.kind = "error"
        /\ ~response.transaction
        /\ response.error \in
               { "Failed to process airdrop check: Invalid Solana address",
                 "Failed to process airdrop check: Invalid public key input",
                 "Failed to process airdrop check: Cannot read properties of undefined (reading '_bn')",
                 "Failed to process airdrop check: Unexpected end of JSON input" }
        /\ request.body = "offcurve" =>
               response.error = "Failed to process airdrop check: Invalid Solana address"
        /\ evaluation = "notcalled"
        /\ issued = NoneIssued
        /\ transactions = <<>> /\ orphans = 0
        /\ results = <<>>

\* The off-curve address has been refused.
C7_Witness ==
    /\ request.method = "POST"
    /\ request.action = "check"
    /\ request.body = "offcurve"
    /\ response.status = 500
    /\ "post" \in errorLog


(***************************************************************************)
(* C8.  The window holds at most SIGNATURE_LIMIT transactions (the limit   *)
(* given to the signature lookup); after every turn of the tally loop and  *)
(* in every returned map, the count of a target is at most SIGNATURE_LIMIT *)
(* and at most the number of transactions resolved so far; so the total of *)
(* a criterion is at most SIGNATURE_LIMIT times the number of its          *)
(* requiredTokens.                                                         *)
(***************************************************************************)
C8_CountsBoundedByWindow ==
    /\ Len(transactions) <= SIGNATURE_LIMIT
    /\ signatures.n <= SIGNATURE_LIMIT
    /\ \A i \in DOMAIN interactions :
           /\ \A t \in DOMAIN interactions[i] : interactions[i][t] <= SIGNATURE_LIMIT
           /\ CountSum(interactions[i])
                  <= SIGNATURE_LIMIT * Len(AIRDROP_CRITERIA[i].requiredTokens)
    /\ BatchSettled =>
           /\ \A t \in Targets(LastCounted) :
                  MapGet(interactions[LastCounted], t) <= Cardinality(Resolved(transactions))
           /\ ~CounterFailed =>
                  \A k \in 0..Len(transactions), t \in Targets(LastCounted) :
                      LET count == MapGet(TallyPrefix(transactions,
                                              AIRDROP_CRITERIA[LastCounted].requiredTokens, k), t)
                      IN  /\ count <= SIGNATURE_LIMIT
                          /\ count <= Cardinality(Resolved(SubSeq(transactions, 1, k)))

\* A full window in which every transaction names the target: the count
\* reaches the limit.
C8_Witness ==
    /\ BatchSettled
    /\ Len(transactions) = SIGNATURE_LIMIT
    /\ \E t \in Targets(LastCounted) :
           MapGet(interactions[LastCounted], t) = SIGNATURE_LIMIT

(***************************************************************************)
(* C9.  The outbound calls of one POST are ordered: the balances fetch is  *)
(* issued once and has completed before any signature lookup; the          *)
(* signature lookups are issued once per criterion, in table order, and    *)
(* the one of criterion k+1 not before every transaction lookup of         *)
(* criterion k has completed; within a criterion no transaction lookup is  *)
(* in flight while the signature lookup is, and the tally is taken only    *)
(* when no transaction lookup is in flight any more.                       *)
(***************************************************************************)
C9_OutboundCallsInOrder ==
    /\ issued.balances <= 1
    /\ \A k \in 1..NumCriteria : issued.signatures[k] <= 1
    /\ \A k \in 1..NumCriteria - 1 : issued.signatures[k + 1] <= issued.signatures[k]
    /\ pc = "balances" => \A k \in 1..NumCriteria : issued.signatures[k] = 0
    /\ \A k \in 1..NumCriteria : issued.signatures[k] = 1 => issued.balances = 1
    /\ pc = "signatures" => (PendingSlots(transactions) = {} /\ orphans = 0)
    /\ pc = "transactions" => issued.signatures[crit] = 1
    /\ LastCounted >= crit => orphans = 0

(***************************************************************************)
(* C10.  When the signature lookup has succeeded, the returned map gives   *)
(* each target exactly the number of resolved transactions of the window   *)
(* whose account keys include the target: a lookup that failed is skipped  *)
(* and the others are still counted, a transaction adds at most one to a   *)
(* target, in whatever order the lookups complete.                         *)
(***************************************************************************)
C10_MapCountsResolvedTransactions ==
    BatchSettled =>
        \A t \in Targets(LastCounted) :
            MapGet(interactions[LastCounted], t)
                = Cardinality(ResolvedWith(transactions, t))

====
